---- MODULE Spec2Model ----
(***************************************************************************)
(* Verification model of goanywhere/webapp.                                *)
(*                                                                         *)
(* Part 1: the livereload notification hub of web/livereload.go: the hub   *)
(* coordination loop (lrserver.Start), the accept boundary                 *)
(* (lrserver.Serve), the send side (lrserver.Alert / lrserver.Reload) and  *)
(* the two loops of every tunnel (tunnel.connect).                         *)
(*                                                                         *)
(* Go semantics the model keeps:                                           *)
(*  - in, out and broadcast are unbuffered channels: a send completes in    *)
(*    the step in which the hub's select receives it;                      *)
(*  - tunnel.message is a buffered channel; a sender blocked on a full     *)
(*    buffer is served directly by the next receive (runtime hand-off);    *)
(*    closing a channel panics a blocked sender; closing twice panics;     *)
(*  - sync.RWMutex is not reentrant, and a defer inside the hub's endless  *)
(*    for loop runs only when the enclosing function returns, i.e. never;  *)
(*  - ranging over a map visits the keys in an unspecified order.          *)
(***************************************************************************)
EXTENDS Integers, Sequences, FiniteSets, TLC

(* ------------------------------ bounds -------------------------------- *)
\* Number of connections (tunnels) the clients may open.
NumTunnels == 2
\* Capacity of a tunnel's mailbox (make(chan []byte, 256)), scaled down.
MailboxCap == 1
\* Number of inputs: Alert/Reload calls made by the collaborators (file
\* watcher) plus hello frames sent by the clients.
MaxInputs == 2
\* Number of inputs it takes to have a writer hold a frame, the mailbox
\* full behind it and one more frame waiting to be enqueued.
StallInputs == MailboxCap + 2

\* Goroutines that call the template loader, and HTML files under its root.
NumGoroutines == 2

NumTemplates == 2

\* Template files whose tags page.ancestors and page.include follow.
NumPages == 3

\* File events the dev server's watch loop receives, and signals its
\* process runner is sent when it runs on its own.
MaxEvents == 3

MaxSignals == 5

\* Length of the strings given to Deserialize.
MaxValue == 4

\* Middlewares registered with Application.Use, and requests served.
MaxMiddlewares == 3

MaxRequests == 2

Tunnel == 1 .. NumTunnels

(* --------------------------- wire encoding ---------------------------- *)
\* Byte strings are sequences of tokens; the double quote and the backslash
\* are tokens of their own so that JSON string escaping is visible.
Q == "\""
BS == "\\"

Official7 == "http://livereload.com/protocols/official-7"
ServerName == "Rex#Livereload"

\* The byte pattern both loops look for: "command":"hello"
HelloPattern == <<Q, "command", Q, ":", Q, "hello", Q>>

\* bytes.Contains(b, p)
Contains(b, p) ==
  \E i \in 0 .. (Len(b) - Len(p)) :
    \A k \in 1 .. Len(p) : b[i + k] = p[k]

\* encoding/json string escaping: a quote or a backslash inside a string
\* value is preceded by a backslash.
RECURSIVE Escape(_)
Escape(s) ==
  IF s = <<>> THEN <<>>
  ELSE (IF Head(s) \in {Q, BS} THEN <<BS, Head(s)>> ELSE <<Head(s)>>)
       \o Escape(Tail(s))

JString(s) == <<Q>> \o Escape(s) \o <<Q>>

\* The three frame shapes.  seq is the number of the Alert/Reload call the
\* frame stems from (0 for a hello reply); it is not part of the bytes.
HelloFrame ==
  [command |-> "hello", body |-> <<Official7>>, serverName |-> <<ServerName>>,
   seq |-> 0]
AlertFrame(message, n) ==
  [command |-> "alert", body |-> message, serverName |-> <<>>, seq |-> n]
ReloadFrame(path, n) ==
  [command |-> "reload", body |-> path, serverName |-> <<>>, seq |-> n]

\* json.Marshal of the hello, alert and reload structs.
Marshal(f) ==
  <<"{">> \o JString(<<"command">>) \o <<":">> \o JString(<<f.command>>) \o
  (CASE f.command = "hello" ->
          <<",">> \o JString(<<"protocols">>) \o <<":", "[">> \o
          JString(f.body) \o <<"]", ",">> \o JString(<<"serverName">>) \o
          <<":">> \o JString(f.serverName)
     [] f.command = "alert" ->
          <<",">> \o JString(<<"message">>) \o <<":">> \o JString(f.body)
     [] f.command = "reload" ->
          <<",">> \o JString(<<"path">>) \o <<":">> \o JString(f.body) \o
          <<",">> \o JString(<<"liveCSS">>) \o <<":", "true">>)
  \o <<"}">>

\* Inputs of Alert and Reload.
Connected == <<"Connected">>
Messages == {<<"build failed">>}
Paths == {<<"/app.css">>}

\* Frames a client sends: the handshake of livereload.js and an info frame;
\* and an info frame whose payload holds an object with a command member.
ClientHello ==
  <<"{">> \o JString(<<"command">>) \o <<":">> \o JString(<<"hello">>) \o
  <<",">> \o JString(<<"protocols">>) \o <<":", "[">> \o
  JString(<<Official7>>) \o <<"]", "}">>
ClientInfo ==
  <<"{">> \o JString(<<"command">>) \o <<":">> \o JString(<<"info">>) \o
  <<"}">>
ClientNested ==
  <<"{">> \o JString(<<"command">>) \o <<":">> \o JString(<<"info">>) \o
  <<",">> \o JString(<<"plugins">>) \o <<":", "{">> \o
  JString(<<"command">>) \o <<":">> \o JString(<<"hello">>) \o <<"}", "}">>
ClientFrames == {ClientHello, ClientInfo}

\* The command discriminator of a frame: the value of the member "command"
\* of the outermost JSON object ("" when there is none).
Depth(b, i) ==
  Cardinality({k \in 1 .. i : b[k] = "{"}) -
  Cardinality({k \in 1 .. i : b[k] = "}"})
Command(b) ==
  LET key == <<Q, "command", Q, ":", Q>>
      at == {i \in 1 .. (Len(b) - 6) :
               /\ Depth(b, i - 1) = 1
               /\ SubSeq(b, i, i + 4) = key
               /\ b[i + 6] = Q}
  IN  IF at = {} THEN ""
      ELSE b[(CHOOSE i \in at : \A j \in at : i <= j) + 5]

(* ------------------------------- state -------------------------------- *)
VARIABLES
  tunnels,    \* lrserver.tunnels: the registry (keys of the map)
  mutex,      \* lrserver.mutex: TRUE while write-locked
  hub,        \* position of the hub goroutine started by Start
  broadcast,  \* senders blocked on `self.broadcast <- bytes`
  calls,      \* number of Alert/Reload invocations so far
  caller,     \* position of the collaborator that calls Alert/Reload
  srv,        \* position of Serve (and of the reader loop it runs), per tunnel
  wr,         \* position of the writer goroutine, per tunnel
  ws,         \* tunnel.ws: state of the websocket connection
  message,    \* tunnel.message: frames buffered in the mailbox
  closed,     \* how often close(tunnel.message) was executed
  hellos,     \* number of frames read that the reader took for a hello
  strays,     \* how many of them carried another command than hello
  limit,      \* the number of inputs explored (fixed by the initial state)
  writing,    \* the frame the writer holds inside ws.WriteMessage, if any
  wire,       \* frames written by ws.WriteMessage, in order
  request,    \* middleware.XSRF: the request the handler was called with
  response,   \* middleware.XSRF: what the handler did with its ResponseWriter
  disk,       \* template: the HTML files under Loader.root
  loaded,     \* Loader.loaded
  templates,  \* Loader.templates: the keys of the map
  rwmutex,    \* Loader.RWMutex: the goroutine holding the write lock, or 0
  pc,         \* position of each goroutine inside Get, Load or Reset
  op,         \* the call each goroutine is in
  todo,       \* Load: the names its range loop has still to visit
  result,     \* what the last call of each goroutine returned
  parses,     \* how often page(name).parse() ran, per name
  fatal,      \* the Go runtime ended the process on a concurrent map access
  extends,    \* template: the first extends tag of each file, if any
  includes,   \* template: the include tags of each file, in order
  walk,       \* page.ancestors: position, `name` and `names`
  inc,        \* page.include: position, the page and `source`
  loop,       \* rex: position of app.start (the watch loop)
  delay,      \* rex: the channel `delay` of the watch loop
  retries,    \* rex: `retries` of the watch loop
  runner,     \* rex: position of the goroutine of app.run, and its `start`
  proc,       \* rex: `proc` of that goroutine: 0 (nil) or a process
  procs,      \* rex: the application processes started so far
  log,        \* rex: the file events received and the rebuilds made
  deser,      \* web.Deserialize: the last call, its argument and results
  middlewares, \* Application.middlewares
  served,     \* Application.ServeHTTP: the handlers the last request went through
  hits        \* Application.ServeHTTP: number of requests served

\* The state of middleware.XSRF and of template.Loader.
xsrfVars == <<request, response>>

loaderVars == <<disk, loaded, templates, rwmutex, pc, op, todo, result,
                parses, fatal>>

pageVars == <<extends, includes, walk, inc>>

rexVars == <<loop, delay, retries, runner, proc, procs, log>>

utilVars == <<deser>>

appVars == <<middlewares, served, hits>>

\* The state of the packages other than web's livereload server.
rest == <<xsrfVars, loaderVars, pageVars, rexVars, utilVars, appVars>>

vars == <<tunnels, mutex, hub, broadcast, calls, caller, srv, wr, ws, message,
          closed, hellos, strays, limit, writing, wire, rest>>

\* middleware: no request handled yet.
XsrfInit ==
  /\ request = <<>>
  /\ response = <<>>

Goroutine == 1 .. NumGoroutines

Names == 1 .. NumTemplates

\* template: the Loader as NewLoader returns it, over a root that holds the
\* HTML files d.
LoaderInit(d) ==
  /\ disk = d
  /\ loaded = FALSE
  /\ templates = {}
  /\ rwmutex = 0
  /\ pc = [g \in Goroutine |-> "idle"]
  /\ op = [g \in Goroutine |-> <<>>]
  /\ todo = [g \in Goroutine |-> <<>>]
  /\ result = [g \in Goroutine |-> <<>>]
  /\ parses = [n \in Names |-> 0]
  /\ fatal = FALSE

Pages == 1 .. NumPages

\* template: files with the tags e (extends) and i (include), and no call
\* of page.ancestors or page.include made yet.
PageInit(e, i) ==
  /\ extends = e
  /\ includes = i
  /\ walk = [pc |-> "idle", name |-> 0, names |-> <<>>]
  /\ inc = [pc |-> "idle", page |-> 0, source |-> <<>>, passes |-> 0]

\* Files without tags.
PlainPages == PageInit([n \in Pages |-> <<>>], [n \in Pages |-> <<>>])

\* rex: before app.start or app.run is called.
RexInit ==
  /\ loop = "idle"
  /\ delay = "nil"
  /\ retries = 0
  /\ runner = [pc |-> "none", start |-> FALSE]
  /\ proc = 0
  /\ procs = <<>>
  /\ log = <<>>

\* web: Deserialize not called yet.
UtilInit == deser = <<>>

\* web: the Application as New returns it, no request served.
AppInit ==
  /\ middlewares = <<>>
  /\ served = <<>>
  /\ hits = 0

\* The packages apart from template.page before any of their code has run.
ToolInit == RexInit /\ UtilInit /\ AppInit

\* The other packages before any of their code has run.
OtherInit == PlainPages /\ ToolInit

\* The state after `var Livereload = &lrserver{...}`, before Start, with n
\* inputs to come.
LivereloadInit(n) ==
  /\ limit = n
  /\ tunnels = {}
  /\ mutex = FALSE
  /\ hub = "idle"
  /\ broadcast = {}
  /\ calls = 0
  /\ caller = "ready"
  /\ srv = [t \in Tunnel |-> "none"]
  /\ wr = [t \in Tunnel |-> "none"]
  /\ ws = [t \in Tunnel |-> "none"]
  /\ message = [t \in Tunnel |-> <<>>]
  /\ closed = [t \in Tunnel |-> 0]
  /\ hellos = [t \in Tunnel |-> 0]
  /\ strays = 0
  /\ writing = [t \in Tunnel |-> <<>>]
  /\ wire = [t \in Tunnel |-> <<>>]

\* The state of the whole program before any of it has run, with n inputs
\* to the livereload server to come.
InitWith(n) ==
  /\ LivereloadInit(n)
  /\ XsrfInit
  /\ LoaderInit(Names)
  /\ OtherInit

Init == InitWith(MaxInputs)


(* ------------------------- the hub's handlers ------------------------- *)
\* The part of the state the hub goroutine reads and writes, as a record.
HubView ==
  [tunnels |-> tunnels, mutex |-> mutex, hub |-> hub, message |-> message,
   closed |-> closed, srv |-> srv]

\* self.mutex.Lock() executed by the hub at position `at`.  The matching
\* `defer self.mutex.Unlock()` is registered on the goroutine's function,
\* which never returns, so a lock once taken stays taken; Lock on the held
\* mutex blocks the hub at `at` for good.
MutexLock(s, at) ==
  IF s.mutex THEN [s EXCEPT !.hub = at] ELSE [s EXCEPT !.mutex = TRUE]

\* close(tunnel.message): closing a closed channel panics the hub goroutine;
\* a reader blocked in `self.message <- bytes` panics and unwinds into
\* Serve's deferred `self.out <- tn`.
CloseMailbox(s, t) ==
  IF s.closed[t] > 0
    THEN [s EXCEPT !.closed[t] = @ + 1, !.hub = "panic"]
    ELSE [s EXCEPT !.closed[t] = 1,
                   !.srv[t] = IF @ = "reply" THEN "leave" ELSE @]

\* case tunnel := <-self.in
Join(s, t) ==
  LET l == MutexLock(s, "Lock129")
  IN  IF l.hub # "select" THEN l
      ELSE [l EXCEPT !.tunnels = @ \cup {t}]

\* Leave with the close moved in front of the lock and the delete.
Leave_CloseFirst(s, t) ==
  LET c == CloseMailbox(s, t)
      l == MutexLock(c, "Lock134")
  IN  IF c.hub # "select" THEN c
      ELSE IF l.hub # "select" THEN l
      ELSE [l EXCEPT !.tunnels = @ \ {t}]

\* case tunnel := <-self.out
Leave(s, t) ==
  LET l == MutexLock(s, "Lock134")
  IN  IF l.hub # "select" THEN l
      ELSE CloseMailbox([l EXCEPT !.tunnels = @ \ {t}], t)

\* Offer with the delete in the wrong branch of the select: the tunnel is
\* dropped from the registry when the send succeeds.
Offer_DeleteOnSend(s, t, m) ==
  IF s.closed[t] > 0 THEN [s EXCEPT !.hub = "panic"]
  ELSE IF Len(s.message[t]) < MailboxCap
    THEN [s EXCEPT !.message[t] = Append(@, m), !.tunnels = @ \ {t}]
    ELSE LET l == MutexLock(s, "Lock144")
         IN  IF l.hub # "select" THEN l
             ELSE CloseMailbox(l, t)

\* Offer as a plain send into a mailbox that takes whatever it is given.
Offer_Unbounded(s, t, m) ==
  IF s.closed[t] > 0 THEN [s EXCEPT !.hub = "panic"]
  ELSE [s EXCEPT !.message[t] = Append(@, m)]

\* Offer with the capacity test off by one.
Offer_OffByOne(s, t, m) ==
  IF s.closed[t] > 0 THEN [s EXCEPT !.hub = "panic"]
  ELSE IF Len(s.message[t]) < MailboxCap - 1
    THEN [s EXCEPT !.message[t] = Append(@, m)]
    ELSE LET l == MutexLock(s, "Lock144")
         IN  IF l.hub # "select" THEN l
             ELSE CloseMailbox([l EXCEPT !.tunnels = @ \ {t}], t)

\* The inner select of the broadcast case: a non-blocking send into the
\* tunnel's mailbox, and the default branch when the mailbox is full.
Offer(s, t, m) ==
  IF s.closed[t] > 0 THEN [s EXCEPT !.hub = "panic"]
  ELSE IF Len(s.message[t]) < MailboxCap
    THEN [s EXCEPT !.message[t] = Append(@, m)]
    ELSE LET l == MutexLock(s, "Lock144")
         IN  IF l.hub # "select" THEN l
             ELSE CloseMailbox([l EXCEPT !.tunnels = @ \ {t}], t)

\* for tunnel := range self.tunnels { ... } over the keys in `order`; the
\* loop goes no further once the hub goroutine is blocked or has panicked.
RECURSIVE Fanout(_, _, _)
Fanout(s, order, m) ==
  IF order = <<>> \/ s.hub # "select" THEN s
  ELSE Fanout(Offer(s, Head(order), m), Tail(order), m)

\* The orders in which a range over the map may visit the keys.
Orders(S) ==
  {o \in [1 .. Cardinality(S) -> S] : \A i, j \in DOMAIN o : i # j => o[i] # o[j]}

\* Dispatch without the `go`: the calling thread itself executes the send.
Dispatch_Sync(frame, self) == [frame |-> frame, by |-> self]

\* go func() { ...; self.broadcast <- bytes }(): the send is executed by a
\* fresh goroutine (<<"go">>), not by the thread `self` that called
\* Alert/Reload (<<"caller">> or <<"writer", t>>).
Dispatch(frame, self) == [frame |-> frame, by |-> <<"go">>]

(* ------------------------------ actions ------------------------------- *)
\* The number of hello frames among the first n frames of a sequence.
RECURSIVE HelloFrames(_, _)
HelloFrames(w, n) ==
  IF n = 0 THEN 0
  ELSE (IF w[n].command = "hello" THEN 1 ELSE 0) + HelloFrames(w, n - 1)

\* Sum of f[1] .. f[n].
RECURSIVE Sum(_, _)
Sum(f, n) == IF n = 0 THEN 0 ELSE f[n] + Sum(f, n - 1)

\* Inputs consumed so far: calls of Alert/Reload by the collaborators (all
\* calls but the writers' Alert("Connected"), one per hello written) and
\* hello frames read.
Inputs ==
  (calls - Sum([t \in Tunnel |-> HelloFrames(wire[t], Len(wire[t]))], NumTunnels))
  + Sum(hellos, NumTunnels)

\* lrserver.Start: launches the hub goroutine (called once).
Start ==
  /\ hub = "idle"
  /\ hub' = "select"
  /\ UNCHANGED <<limit, rest>>
  /\ UNCHANGED <<tunnels, mutex, broadcast, calls, caller, srv, wr, ws,
                 message, closed, hellos, strays, writing, wire>>

\* lrserver.Alert(message), called by a collaborator.
Alert(msg) ==
  /\ caller = "ready"
  /\ Inputs < limit
  /\ LET d == Dispatch(AlertFrame(msg, calls + 1), <<"caller">>)
     IN  /\ broadcast' = broadcast \cup {d}
         /\ caller' = IF d.by = <<"caller">> THEN "sending" ELSE "ready"
  /\ calls' = calls + 1
  /\ UNCHANGED <<limit, rest>>
  /\ UNCHANGED <<tunnels, mutex, hub, srv, wr, ws, message, closed, hellos,
                 strays, writing, wire>>

\* lrserver.Reload(path), called by a collaborator.
Reload(path) ==
  /\ caller = "ready"
  /\ Inputs < limit
  /\ LET d == Dispatch(ReloadFrame(path, calls + 1), <<"caller">>)
     IN  /\ broadcast' = broadcast \cup {d}
         /\ caller' = IF d.by = <<"caller">> THEN "sending" ELSE "ready"
  /\ calls' = calls + 1
  /\ UNCHANGED <<limit, rest>>
  /\ UNCHANGED <<tunnels, mutex, hub, srv, wr, ws, message, closed, hellos,
                 strays, writing, wire>>

\* Serve that enters the tunnel into the registry itself, next to offering
\* the join.
Serve_Register(t) ==
  /\ srv[t] = "none"
  /\ \A u \in Tunnel : u < t => srv[u] # "none"
  /\ \E ok \in BOOLEAN :
       IF ok
         THEN /\ srv' = [srv EXCEPT ![t] = "join"]
              /\ ws' = [ws EXCEPT ![t] = "open"]
              /\ tunnels' = tunnels \cup {t}
         ELSE /\ srv' = [srv EXCEPT ![t] = "failed"]
              /\ UNCHANGED <<ws, tunnels>>
  /\ UNCHANGED <<limit, rest>>
  /\ UNCHANGED <<mutex, hub, broadcast, calls, caller, wr, message,
                 closed, hellos, strays, writing, wire>>

\* Serve without the return on a failed upgrade: the tunnel is created
\* around the missing connection and offered to the hub.
Serve_IgnoreError(t) ==
  /\ srv[t] = "none"
  /\ \A u \in Tunnel : u < t => srv[u] # "none"
  /\ \E ok \in BOOLEAN :
       /\ srv' = [srv EXCEPT ![t] = "join"]
       /\ ws' = [ws EXCEPT ![t] = IF ok THEN "open" ELSE @]
  /\ UNCHANGED <<limit, rest>>
  /\ UNCHANGED <<tunnels, mutex, hub, broadcast, calls, caller, wr, message,
                 closed, hellos, strays, writing, wire>>

\* lrserver.Serve up to the join: the upgrade fails and Serve returns, or
\* the tunnel is created and Serve blocks in `self.in <- tn`.  Requests are
\* numbered in the order in which they arrive.
Serve(t) ==
  /\ srv[t] = "none"
  /\ \A u \in Tunnel : u < t => srv[u] # "none"
  /\ \E ok \in BOOLEAN :
       IF ok
         THEN /\ srv' = [srv EXCEPT ![t] = "join"]
              /\ ws' = [ws EXCEPT ![t] = "open"]
         ELSE /\ srv' = [srv EXCEPT ![t] = "failed"]
              /\ UNCHANGED ws
  /\ UNCHANGED <<limit, rest>>
  /\ UNCHANGED <<tunnels, mutex, hub, broadcast, calls, caller, wr, message,
                 closed, hellos, strays, writing, wire>>

\* The hub's select takes the join of t; Serve goes on into tn.connect(),
\* which starts the writer goroutine and enters the reader loop.
HubIn(t) ==
  /\ hub = "select"
  /\ srv[t] = "join"
  /\ LET s == Join([HubView EXCEPT !.srv[t] = "read"], t)
     IN  /\ tunnels' = s.tunnels
         /\ mutex' = s.mutex
         /\ hub' = s.hub
         /\ message' = s.message
         /\ closed' = s.closed
         /\ srv' = s.srv
  /\ wr' = [wr EXCEPT ![t] = "run"]
  /\ UNCHANGED <<limit, rest>>
  /\ UNCHANGED <<broadcast, calls, caller, ws, hellos, strays, writing, wire>>

\* The hub's select takes the leave of t; Serve returns.
HubOut(t) ==
  /\ hub = "select"
  /\ srv[t] = "leave"
  /\ LET s == Leave([HubView EXCEPT !.srv[t] = "done"], t)
     IN  /\ tunnels' = s.tunnels
         /\ mutex' = s.mutex
         /\ hub' = s.hub
         /\ message' = s.message
         /\ closed' = s.closed
         /\ srv' = s.srv
  /\ UNCHANGED <<limit, rest>>
  /\ UNCHANGED <<broadcast, calls, caller, wr, ws, hellos, strays, writing, wire>>

\* The hub's select takes a broadcast from one of the blocked senders and
\* fans it out over the registry.
HubBroadcast(d) ==
  /\ hub = "select"
  /\ d \in broadcast
  /\ broadcast' = broadcast \ {d}
  /\ caller' = IF d.by = <<"caller">> THEN "ready" ELSE caller
  /\ wr' = [t \in Tunnel |-> IF d.by = <<"writer", t>> THEN "run" ELSE wr[t]]
  /\ \E order \in Orders(tunnels) :
       LET s == Fanout(HubView, order, d.frame)
       IN  /\ tunnels' = s.tunnels
           /\ mutex' = s.mutex
           /\ hub' = s.hub
           /\ message' = s.message
           /\ closed' = s.closed
           /\ srv' = s.srv
  /\ UNCHANGED <<limit, rest>>
  /\ UNCHANGED <<calls, ws, hellos, strays, writing, wire>>

\* Reply with a non-blocking send: the hello reply is dropped when the
\* mailbox is full.
Reply_NonBlocking(s, t) ==
  IF s.closed[t] > 0 THEN [s EXCEPT !.srv[t] = "leave"]
  ELSE IF Len(s.message[t]) < MailboxCap
    THEN [s EXCEPT !.message[t] = Append(@, HelloFrame)]
    ELSE s

\* What a round of the reader loop does with a frame that contains the
\* hello pattern: `self.message <- bytes`.  The send panics on a closed
\* mailbox (Serve unwinds into its deferred leave), completes when the
\* buffer has room, and blocks otherwise.
Reply(s, t) ==
  IF s.closed[t] > 0 THEN [s EXCEPT !.srv[t] = "leave"]
  ELSE IF Len(s.message[t]) < MailboxCap
    THEN [s EXCEPT !.message[t] = Append(@, HelloFrame)]
    ELSE [s EXCEPT !.srv[t] = "reply"]

\* ReaderLoop of a Serve that returns after the reader loop without
\* signalling the leave.
ReaderLoop_NoLeave(t, F) ==
  /\ srv[t] = "read"
  /\ \/ /\ ws' = [ws EXCEPT ![t] = "closed"]
        /\ srv' = [srv EXCEPT ![t] = "done"]
        /\ UNCHANGED <<message, hellos, strays>>
     \/ /\ ws[t] = "open"
        /\ \E f \in F :
             IF Contains(f, HelloPattern)
               THEN /\ Inputs < limit
                    /\ hellos' = [hellos EXCEPT ![t] = @ + 1]
                    /\ strays' = strays + (IF Command(f) = "hello" THEN 0 ELSE 1)
                    /\ LET s == Reply(HubView, t)
                       IN  /\ message' = s.message
                           /\ srv' = s.srv
               ELSE UNCHANGED <<message, srv, hellos, strays>>
        /\ UNCHANGED ws
  /\ UNCHANGED <<limit, rest>>
  /\ UNCHANGED <<tunnels, mutex, hub, broadcast, calls, caller, wr, closed,
                 writing, wire>>

\* ReaderLoop of a Serve that offers the tunnel to the hub again when the
\* reader loop has ended.
ReaderLoop_Rejoin(t, F) ==
  /\ srv[t] = "read"
  /\ \/ /\ ws' = [ws EXCEPT ![t] = "closed"]
        /\ srv' = [srv EXCEPT ![t] = "join"]
        /\ UNCHANGED <<message, hellos, strays>>
     \/ /\ ws[t] = "open"
        /\ \E f \in F :
             IF Contains(f, HelloPattern)
               THEN /\ Inputs < limit
                    /\ hellos' = [hellos EXCEPT ![t] = @ + 1]
                    /\ strays' = strays + (IF Command(f) = "hello" THEN 0 ELSE 1)
                    /\ LET s == Reply(HubView, t)
                       IN  /\ message' = s.message
                           /\ srv' = s.srv
               ELSE UNCHANGED <<message, srv, hellos, strays>>
        /\ UNCHANGED ws
  /\ UNCHANGED <<limit, rest>>
  /\ UNCHANGED <<tunnels, mutex, hub, broadcast, calls, caller, wr, closed,
                 writing, wire>>

\* One round of the reader loop of tunnel.connect, the client sending
\* frames of the set F.  ws.ReadMessage returns an error (transport failure,
\* or the connection closed by the writer): the loop ends with ws.Close()
\* and Serve's deferred leave; or it returns a frame the client sent.
ReaderLoop(t, F) ==
  /\ srv[t] = "read"
  /\ \/ /\ ws' = [ws EXCEPT ![t] = "closed"]
        /\ srv' = [srv EXCEPT ![t] = "leave"]
        /\ UNCHANGED <<message, hellos, strays>>
     \/ /\ ws[t] = "open"
        /\ \E f \in F :
             IF Contains(f, HelloPattern)
               THEN /\ Inputs < limit
                    /\ hellos' = [hellos EXCEPT ![t] = @ + 1]
                    /\ strays' = strays + (IF Command(f) = "hello" THEN 0 ELSE 1)
                    /\ LET s == Reply(HubView, t)
                       IN  /\ message' = s.message
                           /\ srv' = s.srv
               ELSE UNCHANGED <<message, srv, hellos, strays>>
        /\ UNCHANGED ws
  /\ UNCHANGED <<limit, rest>>
  /\ UNCHANGED <<tunnels, mutex, hub, broadcast, calls, caller, wr, closed,
                 writing, wire>>

\* The reader loop with the clients of livereload.js.
Reader(t) == ReaderLoop(t, ClientFrames)

\* The writer goroutine of tunnel.connect at `range self.message`: it
\* receives the next frame of the mailbox and enters ws.WriteMessage with
\* it, or, the mailbox closed and drained, ends the loop with ws.Close().
\* A receive from the full mailbox lets the reader blocked in its send put
\* the hello reply into the freed slot.
WriterRecv(t) ==
  /\ wr[t] = "run"
  /\ \/ /\ message[t] # <<>>
        /\ writing' = [writing EXCEPT ![t] = <<Head(message[t])>>]
        /\ message' = [message EXCEPT ![t] =
             IF srv[t] = "reply" THEN Append(Tail(@), HelloFrame)
             ELSE Tail(@)]
        /\ srv' = [srv EXCEPT ![t] = IF @ = "reply" THEN "read" ELSE @]
        /\ wr' = [wr EXCEPT ![t] = "write"]
        /\ UNCHANGED ws
     \/ /\ message[t] = <<>>
        /\ closed[t] > 0
        /\ ws' = [ws EXCEPT ![t] = "closed"]
        /\ wr' = [wr EXCEPT ![t] = "done"]
        /\ UNCHANGED <<message, srv, writing>>
  /\ UNCHANGED <<limit, rest>>
  /\ UNCHANGED <<tunnels, mutex, hub, broadcast, calls, caller, closed, hellos,
                 strays, wire>>

\* WriterWrite that puts the frame on the wire twice.
WriterWrite_Twice(t) ==
  /\ wr[t] = "write"
  /\ LET m == writing[t][1]
         d == Dispatch(AlertFrame(Connected, calls + 1), <<"writer", t>>)
         hello == Contains(Marshal(m), HelloPattern)
     IN  \E ok \in BOOLEAN :
           IF ok /\ ws[t] = "open"
             THEN /\ wire' = [wire EXCEPT ![t] = Append(Append(@, m), m)]
                  /\ UNCHANGED ws
                  /\ IF hello
                       THEN /\ broadcast' = broadcast \cup {d}
                            /\ calls' = calls + 1
                            /\ wr' = [wr EXCEPT ![t] =
                                 IF d.by = <<"writer", t>>
                                   THEN "alert" ELSE "run"]
                       ELSE /\ wr' = [wr EXCEPT ![t] = "run"]
                            /\ UNCHANGED <<broadcast, calls>>
             ELSE /\ ws' = [ws EXCEPT ![t] = "closed"]
                  /\ wr' = [wr EXCEPT ![t] = "done"]
                  /\ UNCHANGED <<wire, broadcast, calls>>
  /\ writing' = [writing EXCEPT ![t] = <<>>]
  /\ UNCHANGED <<limit, rest>>
  /\ UNCHANGED <<tunnels, mutex, hub, caller, srv, message, closed, hellos,
                 strays>>

\* WriterWrite with `continue` for `break`: after a failed write the loop
\* goes on with the next frame.
WriterWrite_Continue(t) ==
  /\ wr[t] = "write"
  /\ LET m == writing[t][1]
         d == Dispatch(AlertFrame(Connected, calls + 1), <<"writer", t>>)
         hello == Contains(Marshal(m), HelloPattern)
     IN  \E ok \in BOOLEAN :
           IF ok /\ ws[t] = "open"
             THEN /\ wire' = [wire EXCEPT ![t] = Append(@, m)]
                  /\ UNCHANGED ws
                  /\ IF hello
                       THEN /\ broadcast' = broadcast \cup {d}
                            /\ calls' = calls + 1
                            /\ wr' = [wr EXCEPT ![t] =
                                 IF d.by = <<"writer", t>>
                                   THEN "alert" ELSE "run"]
                       ELSE /\ wr' = [wr EXCEPT ![t] = "run"]
                            /\ UNCHANGED <<broadcast, calls>>
             ELSE /\ wr' = [wr EXCEPT ![t] = "run"]
                  /\ UNCHANGED ws
                  /\ UNCHANGED <<wire, broadcast, calls>>
  /\ writing' = [writing EXCEPT ![t] = <<>>]
  /\ UNCHANGED <<limit, rest>>
  /\ UNCHANGED <<tunnels, mutex, hub, caller, srv, message, closed, hellos,
                 strays>>

\* ws.WriteMessage returns.  Without error the frame is on the wire, and
\* after a hello frame the writer calls Alert("Connected"); with an error
\* the loop ends with ws.Close().
WriterWrite(t) ==
  /\ wr[t] = "write"
  /\ LET m == writing[t][1]
         d == Dispatch(AlertFrame(Connected, calls + 1), <<"writer", t>>)
         hello == Contains(Marshal(m), HelloPattern)
     IN  \E ok \in BOOLEAN :
           IF ok /\ ws[t] = "open"
             THEN /\ wire' = [wire EXCEPT ![t] = Append(@, m)]
                  /\ UNCHANGED ws
                  /\ IF hello
                       THEN /\ broadcast' = broadcast \cup {d}
                            /\ calls' = calls + 1
                            /\ wr' = [wr EXCEPT ![t] =
                                 IF d.by = <<"writer", t>>
                                   THEN "alert" ELSE "run"]
                       ELSE /\ wr' = [wr EXCEPT ![t] = "run"]
                            /\ UNCHANGED <<broadcast, calls>>
             ELSE /\ ws' = [ws EXCEPT ![t] = "closed"]
                  /\ wr' = [wr EXCEPT ![t] = "done"]
                  /\ UNCHANGED <<wire, broadcast, calls>>
  /\ writing' = [writing EXCEPT ![t] = <<>>]
  /\ UNCHANGED <<limit, rest>>
  /\ UNCHANGED <<tunnels, mutex, hub, caller, srv, message, closed, hellos,
                 strays>>

\* One step of the writer goroutine of tunnel t.
Writer(t) == WriterRecv(t) \/ WriterWrite(t)

Next ==
  \/ Start
  \/ \E msg \in Messages : Alert(msg)
  \/ \E path \in Paths : Reload(path)
  \/ \E t \in Tunnel : Serve(t)
  \/ \E t \in Tunnel : HubIn(t)
  \/ \E t \in Tunnel : HubOut(t)
  \/ \E d \in broadcast : HubBroadcast(d)
  \/ \E t \in Tunnel : Reader(t)
  \/ \E t \in Tunnel : Writer(t)

Spec == Init /\ [][Next]_vars

\* The same system with clients that send the nested info frame as well.
NestedNext ==
  \/ Next
  \/ \E t \in Tunnel : ReaderLoop(t, {ClientNested})

NestedSpec == Init /\ [][NestedNext]_vars


\* The scheduling the Go runtime provides: a goroutine that can run does
\* run.  The hub goroutine is started and takes an event when one is
\* offered; a writer receives from a non-empty (or closed) mailbox and its
\* write returns; ws.ReadMessage on a closed connection returns its error.
\* Nothing else is assumed of the clients and the collaborators (Serve,
\* Alert, Reload and the frames read are driven by their inputs).
Fairness ==
  /\ WF_vars(Start)
  /\ \A t \in Tunnel : WF_vars(HubIn(t))
  /\ \A t \in Tunnel : WF_vars(HubOut(t))
  /\ WF_vars(\E d \in broadcast : HubBroadcast(d))
  /\ \A t \in Tunnel : WF_vars(Writer(t))
  /\ \A t \in Tunnel : WF_vars(ws[t] = "closed" /\ Reader(t))

LiveSpec == Spec /\ Fairness

\* The same system and scheduling with as many inputs as it takes to stall
\* a mailbox.
StallSpec == InitWith(StallInputs) /\ [][Next]_vars /\ Fairness

\* The part of the fairness that concerns the writer goroutines alone.
WriterFairness == \A t \in Tunnel : WF_vars(Writer(t))

WriterSpec == Spec /\ WriterFairness

(* --------------------------- middleware.XSRF -------------------------- *)
\* The state of web's livereload server, which the other packages leave
\* alone.
livereload == <<tunnels, mutex, hub, broadcast, calls, caller, srv, wr, ws,
                message, closed, hellos, strays, limit, writing, wire>>

\* What each package leaves alone.
outsideXsrf == <<livereload, loaderVars, pageVars, rexVars, utilVars, appVars>>

outsideLoader == <<livereload, xsrfVars, pageVars, rexVars, utilVars, appVars>>

outsidePage == <<livereload, xsrfVars, loaderVars, rexVars, utilVars, appVars>>

outsideRex == <<livereload, xsrfVars, loaderVars, pageVars, utilVars, appVars>>

outsideUtil == <<livereload, xsrfVars, loaderVars, pageVars, rexVars, appVars>>

outsideApp == <<livereload, xsrfVars, loaderVars, pageVars, rexVars, utilVars>>

\* xsrfTimeout (365 days) and the grace period for tokens from the future,
\* in minutes.
xsrfTimeout == 525600

xsrfGrace == 1

\* The position of the last '|' in a token the middleware issued: it
\* follows the 40 hex digits of the SHA-1 HMAC.
xsrfBar == 40

\* The length of a token the middleware issued: base64 of 40 hex digits,
\* the bar and the 19 digits of the nanoseconds.
xsrfLen == 80

errXSRFReferer == "Referer URL is missing from the request or the value was malformed."

errXSRFToken == "Invalid XSRF tokens"

StatusForbidden == 403

\* A token string: `mac` and `age` stand for the bytes it decodes to (the
\* hex HMAC, 0 for one issued in this request, and the issue time as
\* <<minutes before now>>, <<>> when it is no number), `bar` is the index of
\* the last '|' in them, `len` the length of the string and `pad` the number
\* of its characters outside [0-9a-zA-Z-_]. A header, cookie or form value
\* is <<>> when absent and <<token>> when present.
Token(mac, len, bar, age, pad) ==
  [mac |-> mac, len |-> len, bar |-> bar, age |-> age, pad |-> pad]

\* The token strings a client sends as cookie, header or form value.
ClientTokens ==
  { Token(1, xsrfLen, xsrfBar, <<0>>, 0),              \* issued just now
    Token(2, xsrfLen, xsrfBar, <<0>>, 0),              \* another one
    Token(1, xsrfLen, xsrfBar, <<xsrfTimeout>>, 0),    \* a year old
    Token(1, xsrfLen, xsrfBar, <<0 - 2>>, 0),          \* from the future
    Token(1, xsrfLen, xsrfBar - 1, <<0>>, 0),          \* bar misplaced
    Token(1, xsrfLen, xsrfBar, <<>>, 0),               \* no issue time
    Token(1, xsrfLen - 4, xsrfBar, <<0>>, 0),          \* shorter
    Token(1, xsrfLen, xsrfBar, <<0>>, 1) }             \* with a '=' in it

\* An optional value: absent or present.
Optional(S) == {<<>>} \cup {<<v>> : v \in S}

Methods == {"GET", "DELETE", "POST", "PUT"}

Schemes == {"http", "https"}

SiteHost == "site"

\* The Referer header: absent, not a URL, or the <<scheme, host>> of a URL.
Referers ==
  {<<>>, <<"malformed">>, <<"https", SiteHost>>, <<"http", SiteHost>>,
   <<"https", "elsewhere">>}

\* The requests the handler is called with: the form value, when there is
\* one, repeats the cookie or is a token issued just now; so is the header.
Requests ==
  {r \in [Method : Methods,
          Scheme : Schemes,
          Referer : Referers,
          Cookie : Optional(ClientTokens),
          Header : Optional(ClientTokens),
          Form : Optional(ClientTokens)] :
     /\ r.Form \in {<<>>, r.Cookie, <<Token(1, xsrfLen, xsrfBar, <<0>>, 0)>>}
     /\ r.Header \in {<<>>, <<Token(2, xsrfLen, xsrfBar, <<0>>, 0)>>}}

\* unsafeMethods.MatchString(r.Method)
unsafeMethods(method) == method \in {"DELETE", "POST", "PUT"}

\* xsrf.checkOrigin
checkOrigin(r) ==
  IF r.Scheme = "https"
    THEN ~ (\/ Len(r.Referer) = 1
            \/ r.Referer = <<>>
            \/ r.Referer[1] # r.Scheme
            \/ r.Referer[2] # SiteHost)
    ELSE TRUE

\* xsrfPattern.ReplaceAllString(query, ""): the characters outside the
\* alphabet are dropped, and the string is that much shorter.
Sanitize(query) == [query EXCEPT !.len = @ - query.pad, !.pad = 0]

\* base64.URLEncoding.DecodeString with the error dropped: the bytes of a
\* well-formed string, and the bytes decoded up to the fault for a string
\* that is none (a character outside the alphabet, or a length that is no
\* multiple of 4 once such characters are gone).
DecodeString(s) ==
  [mac |-> s.mac, bar |-> s.bar, age |-> s.age,
   whole |-> (s.pad = 0 /\ s.len % 4 = 0)]

\* xsrf.checkToken
checkToken(r, token) ==
  LET query == IF r.Header # <<>> THEN r.Header ELSE r.Form
  IN  IF query = <<>> THEN FALSE
      ELSE IF query[1].len # token.len THEN FALSE
      ELSE LET a == DecodeString(token)
               b == DecodeString(Sanitize(query[1]))
           IN  IF a # b THEN FALSE
               ELSE IF b.bar # xsrfBar THEN FALSE
               ELSE IF b.age = <<>> THEN FALSE
               ELSE IF b.age[1] >= xsrfTimeout THEN FALSE
               ELSE IF b.age[1] < 0 - xsrfGrace THEN FALSE
               ELSE TRUE

\* xsrf.generate: the token of the cookie, or a new one that is also set
\* as cookie; the response carries it in X-XSRF-Token either way.
generate(r) ==
  IF r.Cookie # <<>>
    THEN [token |-> r.Cookie[1], cookie |-> <<>>]
    ELSE LET new == Token(0, xsrfLen, xsrfBar, <<0>>, 0)
         IN  [token |-> new, cookie |-> <<new>>]

\* http.Error(w, msg, code), once per element.
Errors(r, token) ==
  (IF ~ checkOrigin(r) THEN <<[msg |-> errXSRFReferer, code |-> StatusForbidden]>>
   ELSE <<>>)
  \o
  (IF ~ checkToken(r, token) THEN <<[msg |-> errXSRFToken, code |-> StatusForbidden]>>
   ELSE <<>>)

\* The handler XSRF(next) serving request r: what it writes to w and how
\* often it calls next.ServeHTTP.
XSRF(r) ==
  LET x == generate(r)
  IN  /\ request' = <<r>>
      /\ response' = <<
           [token |-> x.token,
            cookie |-> x.cookie,
            errors |-> IF unsafeMethods(r.Method) THEN Errors(r, x.token) ELSE <<>>,
            vary |-> "Cookie",
            next |-> 1] >>
      /\ UNCHANGED outsideXsrf

XsrfNext == \E r \in Requests : XSRF(r)

XsrfSpec == Init /\ [][XsrfNext]_vars

(* --------------------------- template.Loader -------------------------- *)
\* Loader.files: the names of the HTML files under the root, in the
\* lexical order of filepath.Walk.
RECURSIVE files(_)
files(d) ==
  IF d = {} THEN <<>>
  ELSE LET first == CHOOSE n \in d : \A m \in d : n <= m
       IN  <<first>> \o files(d \ {first})

\* Goroutine g leaves Load: a plain Load returns to its caller, a Load
\* called by Get goes on with the lookup at line 90.
LoadReturn(g) == IF op[g][1] = "Get" THEN "L90" ELSE "idle"

\* The calls: Loader.Load(), Loader.Get(name).
Calls == {<<"Load">>} \cup {<<"Get", n>> : n \in Names}

\* Goroutine g calls Load or Get; both start at the test of line 97.
Call(g, o) ==
  /\ ~ fatal
  /\ pc[g] = "idle"
  /\ pc' = [pc EXCEPT ![g] = "L97"]
  /\ op' = [op EXCEPT ![g] = o]
  /\ result' = [result EXCEPT ![g] = <<>>]
  /\ UNCHANGED <<disk, loaded, templates, rwmutex, todo, parses, fatal>>
  /\ UNCHANGED outsideLoader

\* if !self.loaded { ... }; return: the flag is read without the lock.
Load97(g) ==
  /\ ~ fatal
  /\ pc[g] = "L97"
  /\ IF loaded
       THEN /\ pc' = [pc EXCEPT ![g] = LoadReturn(g)]
            /\ result' = [result EXCEPT ![g] =
                            IF op[g][1] = "Get" THEN @ ELSE <<"pages", 0>>]
       ELSE /\ pc' = [pc EXCEPT ![g] = "L98"]
            /\ UNCHANGED result
  /\ UNCHANGED <<disk, loaded, templates, rwmutex, op, todo, parses, fatal>>
  /\ UNCHANGED outsideLoader

\* self.Lock(); defer self.Unlock(); ... range self.files()
Load98(g) ==
  /\ ~ fatal
  /\ pc[g] = "L98"
  /\ rwmutex = 0
  /\ rwmutex' = g
  /\ todo' = [todo EXCEPT ![g] = files(disk)]
  /\ pc' = [pc EXCEPT ![g] = IF disk = {} THEN "L104" ELSE "L101"]
  /\ UNCHANGED <<disk, loaded, templates, op, result, parses, fatal>>
  /\ UNCHANGED outsideLoader

\* self.templates[name] = self.page(name).parse(); pages++
Load101(g) ==
  /\ ~ fatal
  /\ pc[g] = "L101"
  /\ templates' = templates \cup {Head(todo[g])}
  /\ parses' = [parses EXCEPT ![Head(todo[g])] = @ + 1]
  /\ todo' = [todo EXCEPT ![g] = Tail(@)]
  /\ pc' = [pc EXCEPT ![g] = IF Tail(todo[g]) = <<>> THEN "L104" ELSE "L101"]
  /\ UNCHANGED <<disk, loaded, rwmutex, op, result, fatal>>
  /\ UNCHANGED outsideLoader

\* self.loaded = true; return (the deferred Unlock runs).
Load104(g) ==
  /\ ~ fatal
  /\ pc[g] = "L104"
  /\ loaded' = TRUE
  /\ rwmutex' = 0
  /\ pc' = [pc EXCEPT ![g] = LoadReturn(g)]
  /\ result' = [result EXCEPT ![g] =
                  IF op[g][1] = "Get" THEN @ ELSE <<"pages", Cardinality(disk)>>]
  /\ UNCHANGED <<disk, templates, op, todo, parses, fatal>>
  /\ UNCHANGED outsideLoader

\* The goroutines other than g that are about to write the map: inside the
\* loop of Load, or inside the loop of Reset.
MapWriters(g) == {h \in Goroutine \ {g} : pc[h] \in {"L101", "L122"}}

\* What a read of the map by g can do: it succeeds, or, with a write of
\* another goroutine under way, the runtime may also end the process
\* ("concurrent map read and map write").
MapRead(g) == IF MapWriters(g) = {} THEN {"read"} ELSE {"read", "fatal"}

\* return self.templates[name]: the map is read without the lock.
Get90(g) ==
  /\ ~ fatal
  /\ pc[g] = "L90"
  /\ \E outcome \in MapRead(g) :
       /\ fatal' = (outcome = "fatal")
       /\ pc' = [pc EXCEPT ![g] = IF outcome = "fatal" THEN @ ELSE "idle"]
       /\ result' = [result EXCEPT ![g] =
                       IF outcome = "fatal" THEN @
                       ELSE IF op[g][2] \in templates
                         THEN <<"template", op[g][2]>>
                         ELSE <<"nil", op[g][2]>>]
  /\ UNCHANGED <<disk, loaded, templates, rwmutex, op, todo, parses>>
  /\ UNCHANGED outsideLoader

\* Loader.Reset: self.Lock(); defer self.Unlock()
Reset119(g) ==
  /\ ~ fatal
  /\ pc[g] = "idle"
  /\ rwmutex = 0
  /\ rwmutex' = g
  /\ op' = [op EXCEPT ![g] = <<"Reset">>]
  /\ result' = [result EXCEPT ![g] = <<>>]
  /\ pc' = [pc EXCEPT ![g] = IF templates = {} THEN "L124" ELSE "L122"]
  /\ UNCHANGED <<disk, loaded, templates, todo, parses, fatal>>
  /\ UNCHANGED outsideLoader

\* for k := range self.templates { delete(self.templates, k) }
Reset122(g) ==
  /\ ~ fatal
  /\ pc[g] = "L122"
  /\ \E k \in templates :
       /\ templates' = templates \ {k}
       /\ pc' = [pc EXCEPT ![g] = IF templates' = {} THEN "L124" ELSE "L122"]
  /\ UNCHANGED <<disk, loaded, rwmutex, op, todo, result, parses, fatal>>
  /\ UNCHANGED outsideLoader

\* Reset returns (the deferred Unlock runs); `loaded` is left as it was.
Reset124(g) ==
  /\ ~ fatal
  /\ pc[g] = "L124"
  /\ rwmutex' = 0
  /\ pc' = [pc EXCEPT ![g] = "idle"]
  /\ result' = [result EXCEPT ![g] = <<"reset">>]
  /\ UNCHANGED <<disk, loaded, templates, op, todo, parses, fatal>>
  /\ UNCHANGED outsideLoader

\* The Loader over any set of HTML files.
LoaderStart ==
  /\ LivereloadInit(MaxInputs)
  /\ XsrfInit
  /\ \E d \in SUBSET Names : LoaderInit(d)
  /\ OtherInit

\* One goroutine calling Load, Get and Reset one after the other.
SeqNext ==
  \/ \E o \in Calls : Call(1, o)
  \/ Load97(1)
  \/ Load98(1)
  \/ Load101(1)
  \/ Load104(1)
  \/ Get90(1)
  \/ Reset119(1)
  \/ Reset122(1)
  \/ Reset124(1)

LoaderSeqSpec == LoaderStart /\ [][SeqNext]_vars

\* Several goroutines calling Get and Load.
LoaderNext ==
  \/ \E g \in Goroutine, o \in Calls : Call(g, o)
  \/ \E g \in Goroutine : Load97(g)
  \/ \E g \in Goroutine : Load98(g)
  \/ \E g \in Goroutine : Load101(g)
  \/ \E g \in Goroutine : Load104(g)
  \/ \E g \in Goroutine : Get90(g)

LoaderSpec == LoaderStart /\ [][LoaderNext]_vars

(* ---------------------------- template.page --------------------------- *)
\* A name in a tag that no file under the root has.
NoFile == 0

\* What a tag can name.
Targets == Pages \cup {NoFile}

\* The calls explored go this many names beyond a chain of all files.
MaxChain == NumPages + 1

\* regexExtends.FindSubmatch: the files with, each, no extends tag or the
\* name in its first one.
ExtendsTags == [Pages -> Optional(Targets)]

\* The livereload server, the middleware and the Loader before any of
\* their code has run.
BaseInit ==
  /\ LivereloadInit(MaxInputs)
  /\ XsrfInit
  /\ LoaderInit(Names)

\* page.ancestors is called on page p: name = self.Name, names = [name].
ancestors(p) ==
  /\ walk.pc = "idle"
  /\ walk' = [pc |-> "L175", name |-> p, names |-> <<p>>]
  /\ UNCHANGED <<extends, includes, inc>>
  /\ UNCHANGED outsidePage

\* One pass of the loop of page.ancestors: read the file `name`; stop when
\* it has no extends tag, abort when it names itself, else put the base in
\* front of the chain and go on with the base.
ancestorsLoop ==
  /\ walk.pc = "L175"
  /\ Len(walk.names) <= MaxChain
  /\ walk' =
       IF walk.name = NoFile
         THEN [walk EXCEPT !.pc = "Failed to open template"]
       ELSE IF extends[walk.name] = <<>>
         THEN [walk EXCEPT !.pc = "return"]
       ELSE IF extends[walk.name][1] = walk.name
         THEN [walk EXCEPT !.pc = "Template cannot extend itself"]
       ELSE [walk EXCEPT !.names = <<extends[walk.name][1]>> \o @,
                         !.name = extends[walk.name][1]]
  /\ UNCHANGED <<extends, includes, inc>>
  /\ UNCHANGED outsidePage

AncestorsInit ==
  /\ BaseInit
  /\ \E e \in ExtendsTags : PageInit(e, [n \in Pages |-> <<>>])
  /\ ToolInit

AncestorsNext ==
  \/ \E p \in Pages : ancestors(p)
  \/ ancestorsLoop

AncestorsSpec == AncestorsInit /\ [][AncestorsNext]_vars

\* The calls of page.include explored: this many passes of its loop, each
\* starting from a source of no more than MaxSource tags.
MaxPasses == NumPages + 1

MaxSource == NumPages + 1

\* regexInclude.FindAllStringSubmatch over the files: the names in the
\* include tags of each file, in order. A source is kept as the sequence of
\* the include tags in it.
IncludeTags ==
  [Pages -> {<<>>} \cup {<<a>> : a \in Targets}
                   \cup {<<a, b>> : a \in Targets, b \in Targets}]

\* strings.Replace(source, tag, replacement, -1)
RECURSIVE Replace(_, _, _)
Replace(source, tag, replacement) ==
  IF source = <<>> THEN <<>>
  ELSE (IF Head(source) = tag THEN replacement ELSE <<Head(source)>>)
       \o Replace(Tail(source), tag, replacement)

\* for _, match := range result { ... }: the loop over the tags found at
\* the start of the pass, in the record s of the call.
RECURSIVE Matches(_, _)
Matches(s, found) ==
  IF found = <<>> \/ s.pc # "L209" THEN s
  ELSE LET name == Head(found)
       IN  IF name = s.page
             THEN [s EXCEPT !.pc = "Template cannot include itself"]
           ELSE IF name = NoFile
             THEN [s EXCEPT !.pc = "Failed to open template"]
           ELSE Matches([s EXCEPT !.source = Replace(@, name, includes[name])],
                        Tail(found))

\* page.include is called on page p: source = the file of the page.
include(p) ==
  /\ inc.pc = "idle"
  /\ inc' = [pc |-> "L209", page |-> p, source |-> includes[p], passes |-> 0]
  /\ UNCHANGED <<extends, includes, walk>>
  /\ UNCHANGED outsidePage

\* One pass of the outer loop of page.include: find the tags, stop when
\* there is none, else replace each by the source of the file it names.
includeLoop ==
  /\ inc.pc = "L209"
  /\ inc.passes < MaxPasses
  /\ Len(inc.source) <= MaxSource
  /\ inc' = IF inc.source = <<>>
              THEN [inc EXCEPT !.pc = "return"]
              ELSE Matches([inc EXCEPT !.passes = @ + 1], inc.source)
  /\ UNCHANGED <<extends, includes, walk>>
  /\ UNCHANGED outsidePage

IncludeInit ==
  /\ BaseInit
  /\ \E i \in IncludeTags : PageInit([n \in Pages |-> <<>>], i)
  /\ ToolInit

IncludeNext ==
  \/ \E p \in Pages : include(p)
  \/ includeLoop

IncludeSpec == IncludeInit /\ [][IncludeNext]_vars

(* ------------------------------ cmd/rex ------------------------------- *)
\* var WatchList = []string{"*.go", "*.html"}, as the extensions matched.
WatchList == {"go", "html"}

\* fsnotify events: the operation and the extension of the file's base
\* name. One for each operation of the watch list on a listed file, one with
\* another operation, one on another file.
Event(o, e) == [Op |-> o, Ext |-> e]

Events ==
  {Event("Write", "go"), Event("Create", "html"), Event("Remove", "go"),
   Event("Chmod", "go"), Event("Write", "css")}

\* app.inWatchList
inWatchList(event) ==
  IF event.Op = "Write" \/ event.Op = "Create" \/ event.Op = "Remove"
    THEN \E pattern \in WatchList : event.Ext = pattern
    ELSE FALSE

\* The dev server is running: no log.Fatalf and no panic has ended it.
Serving ==
  /\ loop \notin {"Failed to watch", "panic"}
  /\ runner.pc # "Failed to start the process"

\* The file events received so far.
EventsSeen == Len(SelectSeq(log, LAMBDA x : x[1] = "event"))

\* The processes that have not exited.
Alive == {i \in 1 .. Len(procs) : procs[i] # "exited"}

\* The runner after `if proc != nil { ... proc.Wait() }`, with `start` = b
\* and cmd.Start succeeding or not: [runner, proc, procs].
Continue(b, started) ==
  IF ~ b
    THEN [runner |-> [pc |-> "range", start |-> b], proc |-> proc, procs |-> procs]
  ELSE IF started
    THEN [runner |-> [pc |-> "range", start |-> b],
          proc |-> Len(procs) + 1,
          procs |-> Append(procs, "running")]
  ELSE [runner |-> [pc |-> "Failed to start the process", start |-> b],
        proc |-> proc, procs |-> procs]

\* The runner receives b from gorun and, with a process at hand, interrupts
\* it (kills it when the interrupt fails) and goes to proc.Wait().
Receive_NoWait(b) ==
  /\ Serving
  /\ runner.pc = "range"
  /\ \E started \in BOOLEAN :
       LET c == Continue(b, started)
       IN  /\ runner' = c.runner
           /\ proc' = c.proc
           /\ procs' = IF proc = 0 \/ procs[proc] = "exited" THEN c.procs
                       ELSE [c.procs EXCEPT ![proc] = "interrupted"]

\* for start := range gorun { if proc != nil { Signal; Kill; Wait } ... }:
\* the runner receives b. A process that has exited makes Signal fail, Kill
\* and Wait return at once; a live one is interrupted, or killed when the
\* interrupt cannot be sent, and waited for.
Receive(b) ==
  /\ Serving
  /\ runner.pc = "range"
  /\ IF proc = 0 \/ procs[proc] = "exited"
       THEN \E started \in BOOLEAN :
              LET c == Continue(b, started)
              IN  /\ runner' = c.runner
                  /\ proc' = c.proc
                  /\ procs' = c.procs
       ELSE \E sent \in BOOLEAN :
              /\ runner' = [pc |-> "wait", start |-> b]
              /\ procs' = [procs EXCEPT
                             ![proc] = IF sent THEN "interrupted" ELSE "killed"]
              /\ UNCHANGED proc

\* proc.Wait() returns: the process has exited.
Wait ==
  /\ Serving
  /\ runner.pc = "wait"
  /\ procs[proc] = "exited"
  /\ \E started \in BOOLEAN :
       LET c == Continue(runner.start, started)
       IN  /\ runner' = c.runner
           /\ proc' = c.proc
           /\ procs' = c.procs
  /\ UNCHANGED <<loop, delay, retries, log>>
  /\ UNCHANGED outsideRex

\* An application process exits: by itself, on the interrupt, or killed.
Exit(i) ==
  /\ procs[i] # "exited"
  /\ procs' = [procs EXCEPT ![i] = "exited"]
  /\ UNCHANGED <<loop, delay, retries, runner, proc, log>>
  /\ UNCHANGED outsideRex

\* app.run: starts the runner goroutine.
run ==
  /\ runner.pc = "none"
  /\ loop = "idle"
  /\ runner' = [runner EXCEPT !.pc = "range"]
  /\ UNCHANGED <<loop, delay, retries, proc, procs, log>>
  /\ UNCHANGED outsideRex

\* A caller of app.run sends b on gorun.
Signal(b) ==
  /\ loop = "idle"
  /\ Len(log) < MaxSignals
  /\ Receive(b)
  /\ log' = Append(log, <<"signal", IF b THEN "true" ELSE "false", "">>)
  /\ UNCHANGED <<loop, delay, retries>>
  /\ UNCHANGED outsideRex

\* app.start up to the watch loop: listen, run, install, and with the
\* application built the first `gorun <- true`.
start(built) ==
  /\ loop = "idle"
  /\ runner.pc = "none"
  /\ runner' = [runner EXCEPT !.pc = "range"]
  /\ loop' = IF built THEN "L178" ELSE "L189"
  /\ UNCHANGED <<delay, retries, proc, procs, log>>
  /\ UNCHANGED outsideRex

\* gorun <- true (lines 178 and 211): the runner takes the signal.
Restart ==
  /\ loop \in {"L178", "L211"}
  /\ Receive(TRUE)
  /\ loop' = "L189"
  /\ UNCHANGED <<delay, retries, log>>
  /\ UNCHANGED outsideRex

\* case event := <-self.daemon.Events
FileEvent(event) ==
  /\ Serving
  /\ loop = "L189"
  /\ EventsSeen < MaxEvents
  /\ delay' = IF inWatchList(event) THEN "armed" ELSE delay
  /\ log' = Append(log, <<"event", event.Op, event.Ext>>)
  /\ UNCHANGED <<loop, retries, runner, proc, procs>>
  /\ UNCHANGED outsideRex

\* case err := <-self.daemon.Errors: log.Fatalf
WatchError ==
  /\ Serving
  /\ loop = "L189"
  /\ loop' = "Failed to watch"
  /\ UNCHANGED <<delay, retries, runner, proc, procs, log>>
  /\ UNCHANGED outsideRex

\* The 500 ms of time.After have passed: the channel `delay` is ready.
Timer ==
  /\ Serving
  /\ delay = "armed"
  /\ delay' = "ready"
  /\ UNCHANGED <<loop, retries, runner, proc, procs, log>>
  /\ UNCHANGED outsideRex

\* case <-delay with the channel left ready.
Rebuild_KeepDelay(built) ==
  /\ Serving
  /\ loop = "L189"
  /\ delay = "ready"
  /\ delay' = "ready"
  /\ log' = Append(log, <<"build", IF built THEN "ok" ELSE "failed", "">>)
  /\ retries' = IF built THEN 0 ELSE retries + 1
  /\ loop' = IF built THEN "L211"
             ELSE IF retries + 1 >= 3 THEN "panic" ELSE "L189"
  /\ UNCHANGED <<runner, proc, procs>>
  /\ UNCHANGED outsideRex

\* case <-delay with `retries` kept on success.
Rebuild_NoReset(built) ==
  /\ Serving
  /\ loop = "L189"
  /\ delay = "ready"
  /\ delay' = "spent"
  /\ log' = Append(log, <<"build", IF built THEN "ok" ELSE "failed", "">>)
  /\ retries' = IF built THEN retries ELSE retries + 1
  /\ loop' = IF built THEN "L211"
             ELSE IF retries + 1 >= 3 THEN "panic" ELSE "L189"
  /\ UNCHANGED <<runner, proc, procs>>
  /\ UNCHANGED outsideRex

\* case <-delay: the value is taken from the channel, which never delivers
\* another; watch, install; a failure counts and panics at 3, a success
\* resets the count and goes to `gorun <- true`.
Rebuild(built) ==
  /\ Serving
  /\ loop = "L189"
  /\ delay = "ready"
  /\ delay' = "spent"
  /\ log' = Append(log, <<"build", IF built THEN "ok" ELSE "failed", "">>)
  /\ retries' = IF built THEN 0 ELSE retries + 1
  /\ loop' = IF built THEN "L211"
             ELSE IF retries + 1 >= 3 THEN "panic" ELSE "L189"
  /\ UNCHANGED <<runner, proc, procs>>
  /\ UNCHANGED outsideRex

\* The dev server: watch loop, runner and application processes.
WatchNext ==
  \/ \E built \in BOOLEAN : start(built)
  \/ Restart
  \/ \E event \in Events : FileEvent(event)
  \/ WatchError
  \/ Timer
  \/ \E built \in BOOLEAN : Rebuild(built)
  \/ Wait
  \/ \E i \in Alive : Exit(i)

WatchSpec == Init /\ [][WatchNext]_vars

\* The runner on its own, sent any signals.
RunnerNext ==
  \/ run
  \/ \E b \in BOOLEAN : Signal(b)
  \/ Wait
  \/ \E i \in Alive : Exit(i)

RunnerSpec == Init /\ [][RunnerNext]_vars

(* ------------------------------ web utils ----------------------------- *)
\* The characters of the strings explored: two of the URL-safe base64
\* alphabet, the padding character, and one outside the alphabet.
Chars == {"A", "B", "=", "!"}

\* The strings of at most n characters.
RECURSIVE Strings(_)
Strings(n) ==
  IF n = 0 THEN {<<>>}
  ELSE Strings(n - 1) \cup
       {Append(v, c) : v \in {w \in Strings(n - 1) : Len(w) = n - 1}, c \in Chars}

\* The number of padding characters at the end of the string v.
RECURSIVE Padding(_)
Padding(v) ==
  IF v = <<>> \/ v[Len(v)] # "=" THEN 0
  ELSE 1 + Padding(SubSeq(v, 1, Len(v) - 1))

\* base64.URLEncoding.DecodeString: the string is whole quanta of 4
\* characters of the alphabet, the last one padded with at most two '=';
\* the bytes are kept as the characters that carry them.
DecodeBase64(v) ==
  LET pad == Padding(v)
      body == SubSeq(v, 1, Len(v) - pad)
  IN  IF /\ Len(v) % 4 = 0
         /\ pad <= 2
         /\ \A k \in 1 .. Len(body) : body[k] \in {"A", "B"}
        THEN [bits |-> body, err |-> "nil"]
        ELSE [bits |-> <<>>, err |-> "illegal base64 data"]

\* gob.NewDecoder(...).Decode(object): an empty stream is an EOF, a stream
\* is taken here to hold an object when it starts with "B".
DecodeGob(bits) ==
  IF bits = <<>> THEN [object |-> <<>>, err |-> "EOF"]
  ELSE IF Head(bits) = "B" THEN [object |-> Tail(bits), err |-> "nil"]
  ELSE [object |-> <<>>, err |-> "gob: bad data"]

\* web.Deserialize(value, object): the `err` of `if bits, err := ...` is a
\* new variable of the if statement; the decoding assigns to that one, and
\* the bare return returns the named result, which nothing assigns.
Deserialize(value) ==
  LET outer == "nil"
      first == DecodeBase64(value)
      inner == IF first.err = "nil" THEN DecodeGob(first.bits).err ELSE first.err
  IN  /\ deser' = << [value |-> value,
                      object |-> IF first.err = "nil"
                                   THEN DecodeGob(first.bits).object ELSE <<>>,
                      shadow |-> inner,
                      err |-> outer] >>
      /\ UNCHANGED outsideUtil

UtilSpec == Init /\ [][\E value \in Strings(MaxValue) : Deserialize(value)]_vars

(* --------------------------- web.Application -------------------------- *)
\* The middlewares an application registers.
Middleware == {"m1", "m2", "m3"}

\* The argument lists of a call of Use: none, one or two middlewares.
UseArgs ==
  {<<>>} \cup {<<a>> : a \in Middleware}
         \cup {<<a, b>> : a \in Middleware, b \in Middleware}

\* Application.Use(middlewares...)
Use(ms) ==
  /\ Len(middlewares) + Len(ms) <= MaxMiddlewares
  /\ middlewares' = middlewares \o ms
  /\ UNCHANGED <<served, hits>>
  /\ UNCHANGED outsideApp

\* The loop of ServeHTTP run from index 1 upwards.
RECURSIVE Activate_Forward(_, _)
Activate_Forward(app, index) ==
  IF index < 1 THEN app
  ELSE <<middlewares[index]>> \o Activate_Forward(app, index - 1)

\* for index := len(self.middlewares) - 1; index >= 0; index-- {
\*   app = self.middlewares[index](app) }: a handler is kept as the handlers
\* a request goes through, the outermost first; wrapping puts one in front.
RECURSIVE Activate(_, _)
Activate(app, index) ==
  IF index < 1 THEN app
  ELSE Activate(<<middlewares[index]>> \o app, index - 1)

\* Application.ServeHTTP: app starts as the router, is wrapped by the
\* middlewares, and serves the request.
ServeHTTP ==
  /\ hits < MaxRequests
  /\ served' = Activate(<<"router">>, Len(middlewares))
  /\ hits' = hits + 1
  /\ UNCHANGED middlewares
  /\ UNCHANGED outsideApp

AppNext ==
  \/ \E ms \in UseArgs : Use(ms)
  \/ ServeHTTP

AppSpec == Init /\ [][AppNext]_vars

(* ------------------------------ claims -------------------------------- *)
\* The frames queued for or written on tunnel t, oldest first.
Outbound(t) == wire[t] \o writing[t] \o message[t]

\* The hub's select receives the broadcast of sender d in this step.
Received(d) == d \in broadcast /\ d \notin broadcast'

\* Tunnel t has been joined (the hub took its join) and its reader loop runs.
Open(t) == srv[t] \in {"read", "reply"} /\ ws[t] = "open"

\* C1: when the hub processes the broadcast of one Reload(path) call, every
\* tunnel that is in the registry with a mailbox below capacity gets exactly
\* that one reload frame appended to its mailbox: none is skipped, none gets
\* it twice.
C1_ReloadReachesEveryRegistered ==
  [][\A d \in broadcast :
       (Received(d) /\ d.frame.command = "reload") =>
         \A t \in tunnels :
           Len(message[t]) < MailboxCap =>
             message'[t] = Append(message[t], d.frame)]_vars

\* C1 witness: a registered tunnel holds a reload frame in its mailbox.
C1_Witness ==
  \E t \in tunnels :
    \E i \in DOMAIN message[t] : message[t][i].command = "reload"

\* C2: the broadcast pass that meets a full mailbox completes: the hub is
\* back at its select afterwards, and every registered tunnel with free
\* capacity has received the frame.
C2_FullMailboxDoesNotStall ==
  [][\A d \in broadcast :
       Received(d) =>
         /\ hub' = "select"
         /\ \A t \in tunnels :
              Len(message[t]) < MailboxCap =>
                message'[t] = Append(message[t], d.frame)]_vars

\* C3: a tunnel whose mailbox is at capacity when the hub processes a
\* broadcast is removed from the registry and its mailbox is closed in that
\* pass, and the frame is not enqueued to it.
C3_FullMailboxEvicted ==
  [][\A d \in broadcast :
       Received(d) =>
         \A t \in tunnels :
           Len(message[t]) = MailboxCap =>
             /\ t \notin tunnels'
             /\ closed'[t] = 1
             /\ message'[t] = message[t]]_vars

\* C4: a tunnel's mailbox is closed exactly once over the tunnel's lifetime
\* and only after its removal from the registry: never twice, never while
\* registered, and once when Serve has handed its leave to the hub.
C4_ClosedExactlyOnce ==
  \A t \in Tunnel :
    /\ closed[t] <= 1
    /\ closed[t] = 1 => t \notin tunnels
    /\ srv[t] = "done" => closed[t] = 1

\* C5: every tunnel in the registry has a mailbox that has not been closed.
C5_RegisteredMailboxOpen == \A t \in tunnels : closed[t] = 0

\* C5 witness: a tunnel is still registered, its mailbox open, although the
\* hub has taken its leave or met its full mailbox.
C5_Witness ==
  \E t \in tunnels :
    /\ closed[t] = 0
    /\ \/ hub = "Lock134" /\ srv[t] = "done"
       \/ hub = "Lock144" /\ Len(message[t]) = MailboxCap

\* C6: Alert and Reload never block their caller: no collaborator and no
\* writer is ever suspended inside a call, whatever the hub is doing.
C6_CallersNeverBlock ==
  /\ caller = "ready"
  /\ \A t \in Tunnel : wr[t] # "alert"

\* C6 witness: calls have returned while their broadcasts are still pending,
\* with no tunnel registered and the hub loop not started, or with the hub
\* blocked inside an event.
C6_Witness ==
  /\ broadcast # {}
  /\ caller = "ready"
  /\ \/ hub = "idle" /\ tunnels = {}
     \/ hub \in {"Lock129", "Lock134", "Lock144"}

\* C7: a transport failure of one tunnel stays with that tunnel: when the hub
\* takes the failed tunnel's leave it removes the tunnel and is back at its
\* select, and a broadcast it processes reaches every open tunnel that has
\* room in its mailbox.
C7_FailureContained ==
  [][/\ \A t \in Tunnel :
          (srv[t] = "leave" /\ srv'[t] = "done") =>
            (hub' = "select" /\ t \notin tunnels')
     /\ \A d \in broadcast :
          Received(d) =>
            \A t \in Tunnel :
              (Open(t) /\ Len(message[t]) < MailboxCap) =>
                message'[t] = Append(message[t], d.frame)]_vars

\* C8: on every tunnel the broadcast frames appear in the order of the
\* Alert/Reload calls they stem from: a frame of an earlier call is never
\* behind a frame of a later call.
C8_CallOrder ==
  \A t \in Tunnel :
    \A i, j \in DOMAIN Outbound(t) :
      (i < j /\ Outbound(t)[i].seq > 0 /\ Outbound(t)[j].seq > 0) =>
        Outbound(t)[i].seq < Outbound(t)[j].seq

\* A well-formed server hello: names the official-7 protocol and a non-empty
\* server name, and its bytes carry the hello command.
IsServerHello(f) ==
  /\ f.command = "hello"
  /\ f.body = <<Official7>>
  /\ f.serverName # <<>> /\ f.serverName # <<"">>
  /\ Contains(Marshal(f), HelloPattern)

\* The number of well-formed server hello frames written on tunnel t.
HellosWritten(t) ==
  Cardinality({i \in DOMAIN wire[t] : IsServerHello(wire[t][i])})

C10_HelloFirst ==
  \A t \in Tunnel :
    Outbound(t) # <<>> => Outbound(t)[1].command = "hello"

\* C11: once the server hello is written on a tunnel, every later frame
\* written on that tunnel is an alert or a reload: the wire of a tunnel
\* carries at most one hello frame, however many hellos the client sends.
C11_SingleHello ==
  \A t \in Tunnel :
    \A i, j \in DOMAIN wire[t] :
      (i < j /\ wire[t][i].command = "hello") =>
        wire[t][j].command \in {"alert", "reload"}

\* Serve of tunnel t is inside tn.connect(): the join was received and the
\* reader loop has not ended.
InReaderLoop(t) == srv[t] \in {"read", "reply"}

\* C12: a tunnel whose join was sent signals exactly one leave, after the
\* join, when its reader loop ends: the leave is signalled only out of the
\* reader loop, the reader loop ends in no other way than by signalling the
\* leave, and a leave once signalled (or delivered) is never signalled again.
C12_OneLeavePerJoin ==
  [][\A t \in Tunnel :
       /\ (srv[t] # "leave" /\ srv'[t] = "leave") => InReaderLoop(t)
       /\ (InReaderLoop(t) /\ ~InReaderLoop(t)') => srv'[t] = "leave"
       /\ srv[t] = "leave" => srv'[t] \in {"leave", "done"}
       /\ srv[t] = "done" => srv'[t] = "done"]_vars

\* C12 witness: the writer's failed write closed the connection under the
\* reader, the reader loop ended on it and the leave is signalled.
C12_Witness ==
  \E t \in Tunnel :
    /\ wr[t] = "done"
    /\ ws[t] = "closed"
    /\ srv[t] = "leave"

\* C13: a tunnel is inserted into the registry at most once and never again
\* after it has left: it enters the registry only in the step in which the
\* hub takes its join, and a tunnel offers its join only once, before
\* anything else (a tunnel whose Serve is in or past the reader loop never
\* offers a join again).
C13_InsertedOnce ==
  [][\A t \in Tunnel :
       /\ (t \notin tunnels /\ t \in tunnels') =>
            (srv[t] = "join" /\ srv'[t] # "join")
       /\ srv'[t] = "join" => srv[t] \in {"none", "join"}]_vars

\* C13 witness: a tunnel that was inserted has ended (its leave is delivered
\* to the hub, Serve has returned) while another connection is being served.
C13_Witness ==
  \E t \in tunnels :
    /\ srv[t] = "done"
    /\ \E u \in Tunnel : u # t /\ srv[u] \in {"join", "read"}

\* C14: receiving an inbound frame whose command is not hello changes
\* nothing: the mailboxes, the registry, the connections and the position of
\* the reader stay as they are, and no frame is queued in response.  (A frame
\* the reader's test does not match is a step that changes no variable; a
\* frame with another command that the test matches is counted in strays.)
C14_OtherCommandIgnored ==
  [][strays' # strays =>
       /\ message' = message
       /\ tunnels' = tunnels
       /\ ws' = ws
       /\ srv' = srv]_vars

\* C15: when the connection upgrade in Serve fails, no tunnel is created, no
\* join or leave is sent and the registry is unchanged: a request leaves
\* Serve's entry either with an open connection and its join offered, or as
\* failed with nothing touched; and a failed request stays failed, without
\* connection, writer, mailbox or registry entry.
C15_UpgradeFailure ==
  [][\A t \in Tunnel :
       /\ (srv[t] = "none" /\ srv'[t] # "none") =>
            \/ srv'[t] = "join" /\ ws'[t] = "open"
            \/ /\ srv'[t] = "failed"
               /\ ws'[t] = "none"
               /\ UNCHANGED <<tunnels, hub, mutex, message, wr, closed>>
       /\ srv[t] = "failed" =>
            /\ srv'[t] = "failed"
            /\ ws'[t] = "none" /\ wr'[t] = "none"
            /\ message'[t] = <<>> /\ closed'[t] = 0
            /\ t \notin tunnels']_vars

\* C15 witness: a request whose upgrade failed, next to a registered tunnel.
C15_Witness ==
  \E t \in Tunnel :
    /\ srv[t] = "failed"
    /\ \E u \in tunnels : u # t /\ srv[u] = "read"

\* a is an initial segment of b.
Prefix(a, b) == Len(a) <= Len(b) /\ SubSeq(b, 1, Len(a)) = a

C17_NoWriteAfterFailure ==
  [][\A t \in Tunnel :
       /\ (writing[t] # <<>> /\ writing'[t] = <<>> /\ wire'[t] = wire[t]) =>
            (wr'[t] = "done" /\ ws'[t] = "closed")
       /\ wr[t] = "done" =>
            /\ wr'[t] = "done"
            /\ ws'[t] = "closed"
            /\ wire'[t] = wire[t]
            /\ writing'[t] = <<>>
            /\ Prefix(message[t], message'[t])]_vars

\* C17 witness: a writer that wrote a frame, then failed on the next, has
\* ended with the connection closed and frames left in the mailbox.
C17_Witness ==
  \E t \in Tunnel :
    /\ wr[t] = "done"
    /\ ws[t] = "closed"
    /\ wire[t] # <<>>
    /\ message[t] # <<>>

\* C18: a writer's transport failure eventually makes the reader loop of the
\* same tunnel end and signal the leave, wherever the reader is at that
\* moment (in ws.ReadMessage, or in the send of a hello reply): once the
\* writer of a tunnel has ended on a failed write, Serve of that tunnel
\* reaches its leave.
C18_WriterFailureEndsReader ==
  \A t \in Tunnel : (wr[t] = "done") ~> (srv[t] \in {"leave", "done"})

\* C19: the hub processes the leave of a registered tunnel whose reader loop
\* has ended: when it takes the leave, the tunnel is removed from the
\* registry and its mailbox is closed, however many tunnels joined before.
C19_LeaveProcessed ==
  [][\A t \in tunnels :
       (srv[t] = "leave" /\ srv'[t] = "done") =>
         (t \notin tunnels' /\ closed'[t] = 1)]_vars

\* C20: a registered tunnel leaves the registry only in a step in which the
\* hub takes that tunnel's leave, or in a broadcast pass that finds its
\* mailbox at capacity; in every other step it stays registered, handshake
\* or not, reading or not.
C20_RemovedOnlyByLeaveOrOverflow ==
  [][\A t \in tunnels :
       t \notin tunnels' =>
         \/ srv[t] = "leave" /\ srv'[t] = "done"
         \/ /\ \E d \in broadcast : Received(d)
            /\ Len(message[t]) = MailboxCap]_vars

\* C20 witness: a registered tunnel whose client has sent no hello and takes
\* no frame (the writer is held in its write, the mailbox has filled up) is
\* in the registry still.
C20_Witness ==
  \E t \in tunnels :
    /\ hellos[t] = 0
    /\ srv[t] = "read"
    /\ wr[t] = "write"
    /\ Len(message[t]) = MailboxCap

\* The number of events the hub's select receives in this step: joins,
\* leaves and broadcasts.
EventsTaken ==
  Cardinality({t \in Tunnel : srv[t] = "join" /\ srv'[t] # "join"}) +
  Cardinality({t \in Tunnel : srv[t] = "leave" /\ srv'[t] = "done"}) +
  Cardinality({d \in broadcast : d \notin broadcast'})

\* C21: the registry is the hub loop's alone, and the hub handles its events
\* one at a time: a step that changes the registry (or the hub's mutex) is a
\* step of the hub loop handling exactly one event, and an event is taken
\* only by the hub waiting at its select, never while a handler is under way.
C21_RegistryOwnedByHub ==
  [][/\ (tunnels' # tunnels \/ mutex' # mutex) =>
          (hub = "select" /\ EventsTaken = 1)
     /\ EventsTaken > 0 => (hub = "select" /\ EventsTaken = 1)]_vars

\* C21 witness: the hub has registered a tunnel while Serve, the reader and
\* the writer of that tunnel and a call of Alert or Reload are under way.
C21_Witness ==
  \E t \in tunnels :
    /\ srv[t] = "read"
    /\ wr[t] = "write"
    /\ broadcast # {}
    /\ \E u \in Tunnel : srv[u] = "join"

\* C22: the hub loop never gets stuck or crashes inside the handling of an
\* event: whatever joins, leaves and broadcasts it has taken, it is not yet
\* started or back at its select, never blocked inside a handler and never
\* panicked.
C22_HubNeverStuck == hub \in {"idle", "select"}

\* The registered tunnels whose mailbox is at capacity.
Overflowing == {t \in tunnels : Len(message[t]) = MailboxCap}

\* C23: a broadcast pass is two-phase: the frame is offered to every tunnel
\* that is registered when the pass starts, and only then are the tunnels
\* found full removed and closed.  The pass as a whole therefore takes the
\* registry from tunnels to tunnels \ Overflowing, whatever the order of the
\* iteration: every registered tunnel with room holds the frame, every full
\* one is out of the registry with its mailbox closed, and no other tunnel
\* is touched.
C23_TwoPhaseBroadcast ==
  [][\A d \in broadcast :
       Received(d) =>
         /\ tunnels' = tunnels \ Overflowing
         /\ \A t \in Tunnel :
              /\ message'[t] =
                   IF t \in tunnels \ Overflowing
                     THEN Append(message[t], d.frame) ELSE message[t]
              /\ closed'[t] = IF t \in Overflowing THEN 1 ELSE closed[t]]_vars

\* The writer of tunnel t performs Alert("Connected") in this step: it puts
\* a frame on the wire and makes a call of Alert.
NotifiesConnected(t) == wire'[t] # wire[t] /\ calls' = calls + 1

\* C24: the writer's Alert("Connected") is performed at most once per tunnel,
\* when the server hello is written, and never for an alert or a reload
\* frame: the step that performs it writes a hello frame, the first on that
\* wire.
C24_ConnectedOnce ==
  [][\A t \in Tunnel :
       NotifiesConnected(t) =>
         /\ writing[t][1].command = "hello"
         /\ HelloFrames(wire[t], Len(wire[t])) = 0]_vars

\* C25: a mailbox never holds more frames than its capacity, and a hub
\* broadcast does not wait for space in a mailbox: a pass that finds a
\* mailbox at capacity leaves that mailbox as it is, and room made later by
\* the writer is taken by nothing but the hello reply of the tunnel's own
\* reader waiting in its send.
C25_MailboxBounded ==
  [][\A t \in Tunnel :
       /\ Len(message'[t]) <= MailboxCap
       /\ \A d \in broadcast :
            (Received(d) /\ Len(message[t]) = MailboxCap) =>
              message'[t] = message[t]
       /\ (writing[t] = <<>> /\ writing'[t] # <<>>) =>
            \/ message'[t] = Tail(message[t])
            \/ /\ srv[t] = "reply"
               /\ message'[t] = Append(Tail(message[t]), HelloFrame)]_vars

\* C25 witness: a broadcast pass has found the mailbox of a registered
\* tunnel at capacity; the writer has since written what was queued, and
\* the frame of that pass has not come into the mailbox.
C25_Witness ==
  \E t \in tunnels :
    /\ hub = "Lock144"
    /\ Len(wire[t]) = MailboxCap
    /\ message[t] = <<>>
    /\ wr[t] = "run"

\* close(tunnel.message) stands behind self.mutex.Lock() in both handlers
\* that have it (lines 134-137 and 144-147), and the first join has taken
\* the mutex for good before any leave or broadcast can be about a tunnel: no
\* mailbox is ever closed, and neither the hub nor a reader ever meets a
\* closed mailbox.
MailboxesStayOpen ==
  /\ \A t \in Tunnel : closed[t] = 0
  /\ hub # "panic"

\* C27: no writer loop stays blocked forever on the mailbox of a tunnel whose
\* reader loop has ended: once the reader loop of a tunnel has ended and Serve
\* signals (or has handed over) the leave, the tunnel's writer eventually
\* terminates, the hub having closed the mailbox it ranges over.
C27_WriterEndsAfterLeave ==
  \A t \in Tunnel : (srv[t] \in {"leave", "done"}) ~> (wr[t] = "done")

\* The request was one the middleware has to refuse: an unsafe method with
\* a failed origin check or a failed token check.
Refused ==
  /\ request # <<>>
  /\ unsafeMethods(request[1].Method)
  /\ ~ checkOrigin(request[1]) \/ ~ checkToken(request[1], response[1].token)

\* C28: a DELETE, POST or PUT request whose origin check or token check
\* fails gets one 403 response and is not passed to the next handler; every
\* other request is passed on once.
C28_RefusedNotPassedOn ==
  request # <<>> =>
    IF Refused
      THEN /\ response[1].next = 0
           /\ Len(response[1].errors) = 1
           /\ response[1].errors[1].code = StatusForbidden
      ELSE /\ response[1].next = 1
           /\ response[1].errors = <<>>

\* C29: whenever a Load has returned (here: the Load that Get calls before
\* its lookup), also after a Reset, the cache holds a parsed template for
\* every HTML file under the root, and the Get of an existing template does
\* not return nil.
C29_LoadFillsCache ==
  \A g \in Goroutine :
    /\ pc[g] = "L90" => disk \subseteq templates
    /\ \A n \in disk : result[g] # <<"nil", n>>

\* A read and a write of the same field by two goroutines, both about to
\* happen, the reader holding no lock: the flag read at line 97 against the
\* write of line 104, the map read at line 90 against the write of line 101.
Race ==
  \E g, h \in Goroutine :
    /\ g # h
    /\ \/ pc[g] = "L97" /\ pc[h] = "L104"
       \/ pc[g] = "L90" /\ pc[h] = "L101"

\* C30: with several goroutines in Get and Load, every template is parsed
\* at most once, and no goroutine reads the flag or the map while another
\* is writing it.
C30_ParsedOnceNoRace ==
  /\ \A n \in Names : parses[n] <= 1
  /\ ~ Race
  /\ ~ fatal

\* C31: page.ancestors terminates for every set of templates. The walk is
\* determined by the files, so it terminates exactly when it never comes
\* back to a name it has been at: the chain it builds holds no name twice,
\* cycles of two or more templates included.
C31_ChainNeverRevisits ==
  \A i, j \in 1 .. Len(walk.names) : i # j => walk.names[i] # walk.names[j]

\* C32: page.include terminates for every set of templates. Every pass but
\* the last replaces the tags of one more level of nesting, and files that
\* do not include each other in a cycle nest less deep than there are files:
\* the loop ends, with a source free of tags or with an error, within as
\* many replacing passes as there are files.
C32_IncludeEndsWithinDepth ==
  /\ inc.passes <= NumPages
  /\ inc.pc = "return" => inc.source = <<>>

\* An entry of the log is a file event on the watch list: a write, create
\* or remove of a .go or .html file.
Listed(x) ==
  /\ x[1] = "event"
  /\ x[2] \in {"Write", "Create", "Remove"}
  /\ x[3] \in {"go", "html"}

\* This step appends an entry of kind k to the log.
Logs(k) == Len(log') = Len(log) + 1 /\ log'[Len(log')][1] = k

\* Every rebuild in the log l has a listed event before it, with no other
\* rebuild in between.
OnePerBurst(l) ==
  \A k \in 1 .. Len(l) :
    l[k][1] = "build" =>
      \E j \in 1 .. k - 1 :
        /\ Listed(l[j])
        /\ \A m \in j + 1 .. k - 1 : l[m][1] # "build"

RECURSIVE FailedInARow(_)
FailedInARow(l) ==
  IF l = <<>> THEN 0
  ELSE LET last == l[Len(l)]
           front == SubSeq(l, 1, Len(l) - 1)
       IN  IF last[1] # "build" THEN FailedInARow(front)
           ELSE IF last[2] = "failed" THEN 1 + FailedInARow(front)
           ELSE 0

\* C34: the watch loop panics exactly when 3 rebuilds in a row have failed:
\* `retries` is the number of rebuilds that failed in a row (each failure
\* adds one, every success makes it 0); a failed rebuild sends no restart
\* signal and leaves runner and processes as they are, a successful one
\* goes on to send the signal.
C34_PanicAfterThreeFailures ==
  [][/\ retries' = FailedInARow(log')
     /\ (loop' = "panic") <=> (FailedInARow(log') >= 3)
     /\ Logs("build") =>
          IF log'[Len(log')][2] = "failed"
            THEN /\ retries' = retries + 1
                 /\ loop' \in {"L189", "panic"}
                 /\ <<runner, proc, procs>>' = <<runner, proc, procs>>
            ELSE /\ retries' = 0
                 /\ loop' = "L211"]_vars

\* C34 witness: the loop has panicked after three failed rebuilds, the
\* process started before them still running.
C34_Witness ==
  /\ loop = "panic"
  /\ retries = 3
  /\ proc # 0
  /\ procs[proc] = "running"

\* C35: the runner keeps at most one application process alive. A signal
\* received with a live process at hand interrupts that process (kills it
\* when the interrupt fails) and sends the runner to wait for it; the wait ends only when the process has
\* exited; a process is started only on a true signal and with no process
\* left alive; a false signal starts none.
C35_OneProcessAlive ==
  [][/\ Cardinality(Alive') <= 1
     /\ (Logs("signal") /\ proc \in Alive) =>
          (procs'[proc] \in {"interrupted", "killed"} /\ runner'.pc = "wait")
     /\ (runner.pc = "wait" /\ runner'.pc # "wait") => procs[proc] = "exited"
     /\ Len(procs') > Len(procs) =>
          /\ Alive = {}
          /\ runner'.start
          /\ Len(procs') = Len(procs) + 1
          /\ proc' = Len(procs')]_vars

\* C35 witness: two processes were started one after the other, the first
\* stopped for the second, and a false signal has stopped the second with
\* no third one started.
C35_Witness ==
  /\ Len(procs) = 2
  /\ Alive = {}
  /\ runner = [pc |-> "range", start |-> FALSE]
  /\ log = <<(<<"signal", "true", "">>), (<<"signal", "true", "">>),
             (<<"signal", "false", "">>)>>

\* C36: Deserialize returns nil exactly when the object was decoded: a
\* string that is no URL-safe base64, or bytes that gob cannot decode, give
\* a non-nil error.
C36_ErrorUnlessDecoded ==
  deser # <<>> =>
    LET first == DecodeBase64(deser[1].value)
        decoded == first.err = "nil" /\ DecodeGob(first.bits).err = "nil"
    IN  (deser[1].err = "nil") <=> decoded

\* C37: a request goes through the middlewares in the order they were
\* registered with Use, the first registered one first, and reaches the
\* router last; with no middleware it reaches the router alone.
C37_MiddlewaresFIFO ==
  [][hits' = hits + 1 => served' = middlewares \o <<"router">>]_vars

\* C37 witness: a request was served through three middlewares that were
\* registered in two calls of Use and are not all the same.
C37_Witness ==
  /\ hits > 0
  /\ Len(middlewares) = 3
  /\ Len(served) = 4
  /\ served[1] # served[3]

==============================================================================
